---------------------------- MODULE Spec2Model ----------------------------
(***************************************************************************)
(* Model of src/server.js of scope-to-sow-mcp: the text normaliser, the    *)
(* SOW renderer, the generate_sow / open_sow_builder tools with their      *)
(* input schema, and the HTTP request handler that builds one MCP server   *)
(* and one transport per request.                                          *)
(*                                                                         *)
(* Text is a sequence of tokens.  A token is one character of user text    *)
(* ("a", "b", " ", "\t", "\r", "\n") or one fragment of a string literal   *)
(* of the source that holds no line break.  The em dash of the source      *)
(* literals (U+2014) is written "--" inside the fragments.                 *)
(***************************************************************************)
EXTENDS Integers, Sequences, FiniteSets, TLC

VARIABLES
    \* normalizeLines applied once and twice to one value
    ns, n1, n2, npc,
    \* one generate_sow call / one direct buildSowDoc call
    input, tpc, doc, rendered,
    \* the HTTP server: per-request records and the error log
    reqs, logged

normVars == <<ns, n1, n2, npc>>
toolVars == <<input, tpc, doc, rendered>>
httpVars == <<reqs, logged>>
vars == <<ns, n1, n2, npc, input, tpc, doc, rendered, reqs, logged>>

---------------------------------------------------------------------------
(* Bounds *)

MaxNormLen == 5     \* longest text given to normalizeLines alone
MaxLen == 3         \* longest text put in a field of a renderer input
MaxDelivLen == 4    \* longest text put in the deliverables field
MaxRequests == 2    \* HTTP requests received in one run

---------------------------------------------------------------------------
(* Characters *)

SP == " "
TAB == "\t"
CR == "\r"
LF == "\n"

Letters == {"a", "b"}
Chars == Letters \cup {SP, TAB, CR, LF}

\* White space and line terminators removed by String.prototype.trim
TrimSet == {SP, TAB, CR, LF}

Absent == [kind |-> "undefined"]
Null == [kind |-> "null"]
Str(t) == [kind |-> "string", text |-> t]
Num(n, d) == [kind |-> "number", num |-> n, den |-> d]

RECURSIVE TextsOfLen(_, _)
TextsOfLen(alphabet, n) ==
    IF n = 0 THEN {<<>>}
    ELSE {<<c>> \o t : c \in alphabet, t \in TextsOfLen(alphabet, n - 1)}

TextsUpTo(alphabet, n) == UNION {TextsOfLen(alphabet, k) : k \in 0..n}

---------------------------------------------------------------------------
(* normalizeLines *)

\* String(s ?? "")
ToText(v) ==
    IF v.kind = "string" THEN v.text ELSE <<>>

\* .replace(/\r\n/g, "\n")
RECURSIVE ReplaceCRLF(_)
ReplaceCRLF(t) ==
    IF Len(t) = 0 THEN <<>>
    ELSE IF Len(t) >= 2 /\ t[1] = CR /\ t[2] = LF
         THEN <<LF>> \o ReplaceCRLF(SubSeq(t, 3, Len(t)))
         ELSE <<t[1]>> \o ReplaceCRLF(Tail(t))

\* length of the longest prefix of t made of spaces and tabs
RECURSIVE BlankRun(_)
BlankRun(t) ==
    IF Len(t) > 0 /\ t[1] \in {SP, TAB} THEN 1 + BlankRun(Tail(t)) ELSE 0

\* .replace(/[ \t]+\n/g, "\n")
RECURSIVE StripBlankBeforeLF(_)
StripBlankBeforeLF(t) ==
    IF Len(t) = 0 THEN <<>>
    ELSE LET k == BlankRun(t)
         IN IF k > 0 /\ Len(t) > k /\ t[k + 1] = LF
            THEN <<LF>> \o StripBlankBeforeLF(SubSeq(t, k + 2, Len(t)))
            ELSE <<t[1]>> \o StripBlankBeforeLF(Tail(t))

RECURSIVE TrimStart(_)
TrimStart(t) ==
    IF Len(t) > 0 /\ t[1] \in TrimSet THEN TrimStart(Tail(t)) ELSE t

RECURSIVE TrimEnd(_)
TrimEnd(t) ==
    IF Len(t) > 0 /\ t[Len(t)] \in TrimSet
    THEN TrimEnd(SubSeq(t, 1, Len(t) - 1))
    ELSE t

\* .trim()
Trim(t) == TrimEnd(TrimStart(t))

normalizeLines(v) == Trim(StripBlankBeforeLF(ReplaceCRLF(ToText(v))))

---------------------------------------------------------------------------
(* Specification SpecNorm: normalizeLines on every text up to MaxNormLen *)

NormInputs ==
    {Absent, Null} \cup {Str(t) : t \in TextsUpTo(Chars \ {"b"}, MaxNormLen)}

ToolIdle ==
    /\ input = Absent
    /\ tpc = "idle"
    /\ doc = Absent
    /\ rendered = FALSE

HttpIdle ==
    /\ reqs = <<>>
    /\ logged = 0

NormInit ==
    /\ ns \in NormInputs
    /\ n1 = <<>>
    /\ n2 = <<>>
    /\ npc = "start"
    /\ ToolIdle
    /\ HttpIdle

NormalizeOnce ==
    /\ npc = "start"
    /\ n1' = normalizeLines(ns)
    /\ npc' = "once"
    /\ UNCHANGED <<ns, n2, toolVars, httpVars>>

NormalizeTwice ==
    /\ npc = "once"
    /\ n2' = normalizeLines(Str(n1))
    /\ npc' = "twice"
    /\ UNCHANGED <<ns, n1, toolVars, httpVars>>

NormNext == NormalizeOnce \/ NormalizeTwice

SpecNorm == NormInit /\ [][NormNext]_vars

\* C2: normalizeLines is idempotent: normalising an already normalised text
\* returns it unchanged, for every text (carriage returns, tabs and spaces
\* next to line breaks included).
C2_NormalizeIdempotent == npc = "twice" => n2 = n1

---------------------------------------------------------------------------
(* buildSowDoc *)

EmDash == "--"

Digit == <<"0", "1", "2", "3", "4", "5", "6", "7", "8", "9">>

RECURSIVE NatToText(_)
NatToText(n) ==
    IF n < 10 THEN <<Digit[n + 1]>>
    ELSE NatToText(n \div 10) \o <<Digit[(n % 10) + 1]>>

\* `${timelineWeeks}`: Number::toString of n/d, d being 1 or 2
NumberToText(v) ==
    LET abs == IF v.num < 0 THEN 0 - v.num ELSE v.num
    IN  (IF v.num < 0 THEN <<"-">> ELSE <<>>)
            \o NatToText(abs \div v.den)
            \o (IF abs % v.den = 0 THEN <<>> ELSE <<".", "5">>)

\* Boolean(v) for the values an input field can hold
Truthy(v) ==
    CASE v.kind = "string" -> Len(v.text) > 0
      [] v.kind = "number" -> v.num # 0
      [] OTHER -> FALSE

\* x ?? null
OrNull(v) == IF v.kind = "undefined" THEN Null ELSE v

\* Array.prototype.join on an array of strings
RECURSIVE Join(_, _)
Join(arr, sep) ==
    IF Len(arr) = 0 THEN <<>>
    ELSE IF Len(arr) = 1 THEN arr[1].text
    ELSE arr[1].text \o sep \o Join(Tail(arr), sep)

\* Array.prototype.filter(Boolean) on an array of strings and nulls
RECURSIVE FilterBoolean(_)
FilterBoolean(arr) ==
    IF Len(arr) = 0 THEN <<>>
    ELSE IF Truthy(arr[1])
         THEN <<arr[1]>> \o FilterBoolean(Tail(arr))
         ELSE FilterBoolean(Tail(arr))

\* index of the first token c in t, 0 when there is none
RECURSIVE IndexOf(_, _)
IndexOf(t, c) ==
    IF Len(t) = 0 THEN 0
    ELSE IF t[1] = c THEN 1
    ELSE LET r == IndexOf(Tail(t), c) IN IF r = 0 THEN 0 ELSE r + 1

\* String.prototype.split(c)
RECURSIVE Split(_, _)
Split(t, c) ==
    LET i == IndexOf(t, c)
    IN IF i = 0 THEN <<Str(t)>>
       ELSE <<Str(SubSeq(t, 1, i - 1))>> \o Split(SubSeq(t, i + 1, Len(t)), c)

Section(h, b) == [heading |-> h, body |-> b]

SowTitle(projectName) ==
    <<"Statement of Work (SOW) -- ">>
        \o (IF projectName # <<>> THEN projectName ELSE <<"Project">>)

OverviewSection(client, projectName, goal) ==
    Section(<<"1. Overview">>,
        Join(FilterBoolean(<<
            IF client # <<>> THEN Str(<<"Client: ">> \o client) ELSE Null,
            Str(<<"Project: ">> \o (IF projectName # <<>> THEN projectName ELSE <<EmDash>>)),
            Str(<<"Goal: ">> \o (IF goal # <<>> THEN goal ELSE <<EmDash>>))
        >>), <<LF>>))

\* split without .filter(Boolean)
DeliverableLines_NoFilter(deliverables) == Split(deliverables, LF)

DeliverableLines(deliverables) == FilterBoolean(Split(deliverables, LF))

ScopeSection(deliverables) ==
    Section(<<"2. Scope">>,
        IF deliverables # <<>>
        THEN <<"Deliverables (what will be produced):", LF, "- ">>
                 \o Join(DeliverableLines(deliverables), <<LF, "- ">>)
        ELSE <<"Deliverables: ", EmDash>>)

OutOfScopeSection ==
    Section(<<"3. Out of Scope">>,
        <<"Unless explicitly added in writing, the following are out of scope:", LF,
          "- Ongoing maintenance / support beyond handoff", LF,
          "- Work not described in the Deliverables section", LF,
          "- Additional revision rounds beyond what is agreed">>)

\* timelineWeeks !== null in place of the truthiness test
TimelineLine_NullCheck(timelineWeeks) ==
    IF timelineWeeks.kind # "null"
    THEN <<"Target timeline: ~">> \o NumberToText(timelineWeeks) \o <<" week(s)", LF>>
    ELSE <<"Target timeline: To be agreed", LF>>

TimelineLine(timelineWeeks) ==
    IF Truthy(timelineWeeks)
    THEN <<"Target timeline: ~">> \o NumberToText(timelineWeeks) \o <<" week(s)", LF>>
    ELSE <<"Target timeline: To be agreed", LF>>

MilestonesSection(timelineWeeks) ==
    Section(<<"4. Milestones">>,
        TimelineLine(timelineWeeks)
            \o <<"Suggested milestones:", LF,
                 "- Kickoff & requirements alignment", LF,
                 "- Draft / first delivery", LF,
                 "- Review & revisions", LF,
                 "- Final delivery & handoff">>)

AcceptanceSection ==
    Section(<<"5. Acceptance Criteria">>,
        <<"- Deliverables match the written scope and agreed format", LF,
          "- Final files/outputs provided and accessible", LF,
          "- Review feedback incorporated within the agreed revision policy", LF,
          "- Client sign-off provided in writing">>)

AssumptionsSection ==
    Section(<<"6. Assumptions & Dependencies">>,
        <<"- Client provides required inputs (content, access, brand assets) on time", LF,
          "- Single point of contact for approvals", LF,
          "- Delays in feedback may shift timeline">>)

RisksSection ==
    Section(<<"7. Risks">>,
        <<"- Scope expansion without change control", LF,
          "- Delayed inputs/approvals", LF,
          "- Conflicting stakeholder feedback">>)

\* the section pushed whether or not constraints is empty
ConstraintsSections_Always(constraints) ==
    <<Section(<<"8. Constraints / Notes">>, constraints)>>

\* if (constraints) sections.push(...): the sections pushed, none or one
ConstraintsSections(constraints) ==
    IF constraints # <<>>
    THEN <<Section(<<"8. Constraints / Notes">>, constraints)>>
    ELSE <<>>

\* sections.map((s) => `## ${s.heading}\n\n${s.body}\n`)
SectionBlocks(sections) ==
    [i \in 1..Len(sections) |->
        Str(<<"## ">> \o sections[i].heading \o <<LF, LF>> \o sections[i].body \o <<LF>>)]

\* the section blocks joined with "" in place of "\n"
Markdown_NoBlankLine(title, sections) ==
    <<"# ">> \o title \o <<LF, LF>> \o Join(SectionBlocks(sections), <<>>) \o <<LF>>

Markdown(title, sections) ==
    <<"# ">> \o title \o <<LF, LF>> \o Join(SectionBlocks(sections), <<LF>>) \o <<LF>>

\* const sections = [] hoisted out of buildSowDoc: the array still holds
\* the sections of the documents built for earlier requests
SectionsInit_Hoisted ==
    LET built == SelectSeq(reqs, LAMBDA r : r.result.kind = "document")
    IN  IF Len(built) = 0 THEN <<>> ELSE built[Len(built)].result.doc.sections

\* const sections = []
SectionsInit == <<>>

buildSowDoc(inp) ==
    LET projectName == normalizeLines(inp.project_name)
        client == normalizeLines(inp.client)
        goal == normalizeLines(inp.goal)
        deliverables == normalizeLines(inp.deliverables)
        timelineWeeks == OrNull(inp.timeline_weeks)
        constraints == normalizeLines(inp.constraints)
        title == SowTitle(projectName)
        sections ==
            SectionsInit \o
            <<OverviewSection(client, projectName, goal),
              ScopeSection(deliverables),
              OutOfScopeSection,
              MilestonesSection(timelineWeeks),
              AcceptanceSection,
              AssumptionsSection,
              RisksSection>> \o ConstraintsSections(constraints)
    IN [title |-> title, sections |-> sections, markdown |-> Markdown(title, sections)]

---------------------------------------------------------------------------
(* generate_sow: the input schema and the tool handler *)

MinWeeks == 1
MaxWeeks == 104

\* min(1) on the trimmed text
ZStringMin1_Trimmed(v) == v.kind = "string" /\ Len(Trim(v.text)) >= 1

\* z.string().min(1)
ZStringMin1(v) == v.kind = "string" /\ Len(v.text) >= 1

\* z.string().optional()
ZStringOptional(v) == v.kind = "undefined" \/ v.kind = "string"

\* the schema without .int()
ZTimelineWeeks_NoInt(v) ==
    \/ v.kind = "undefined"
    \/ /\ v.kind = "number"
       /\ v.num >= MinWeeks * v.den
       /\ v.num <= MaxWeeks * v.den

\* z.number().int().min(1).max(104).optional()
ZTimelineWeeks(v) ==
    \/ v.kind = "undefined"
    \/ /\ v.kind = "number"
       /\ v.num % v.den = 0
       /\ v.num >= MinWeeks * v.den
       /\ v.num <= MaxWeeks * v.den

generateInputSchema(args) ==
    /\ ZStringMin1(args.project_name)
    /\ ZStringOptional(args.client)
    /\ ZStringMin1(args.goal)
    /\ ZStringMin1(args.deliverables)
    /\ ZTimelineWeeks(args.timeline_weeks)
    /\ ZStringOptional(args.constraints)

\* structuredContent of the generate_sow result
generateSowResult(args) == buildSowDoc(args)

\* structuredContent of the open_sow_builder result
openBuilderResult ==
    [ready |-> TRUE, title |-> Null, sections |-> <<>>, markdown |-> <<>>]

---------------------------------------------------------------------------
(* Specification SpecTool: one generate_sow call, or one direct call of    *)
(* buildSowDoc, on every input of ToolInputs                               *)

TextFields == {"project_name", "client", "goal", "deliverables", "constraints"}

\* the texts a field takes: deliverables takes longer ones, so that a
\* blank line between two items fits
FieldTexts(k) ==
    IF k = "deliverables"
    THEN TextsUpTo(Chars \ {TAB}, MaxDelivLen)
    ELSE TextsUpTo(Chars, MaxLen)

\* values of timeline_weeks: absent, null, and numbers on both sides of the
\* schema's limits, 3.5 among them
TimelineValues ==
    {Absent, Null, Num(-1, 1), Num(0, 1), Num(MinWeeks, 1), Num(6, 1), Num(7, 2),
     Num(MaxWeeks, 1), Num(MaxWeeks + 1, 1)}

PlainFields == [TextFields -> {Absent, Str(<<"a">>)}]

SowInput(f, tw) ==
    [project_name |-> f["project_name"], client |-> f["client"],
     goal |-> f["goal"], deliverables |-> f["deliverables"],
     constraints |-> f["constraints"], timeline_weeks |-> tw]

\* Every text field is absent or "a", except one that takes every value
VaryText(inp) ==
    \E p \in PlainFields, k \in TextFields, tw \in {Absent, Num(6, 1)} :
        \E v \in {Null} \cup {Str(t) : t \in FieldTexts(k)} :
            inp = SowInput([p EXCEPT ![k] = v], tw)

\* Every text field is absent or "a" and timeline_weeks takes every value
VaryTimeline(inp) ==
    \E p \in PlainFields, tw \in TimelineValues : inp = SowInput(p, tw)

NormIdle ==
    /\ ns = Absent
    /\ n1 = <<>>
    /\ n2 = <<>>
    /\ npc = "idle"

ToolInit ==
    /\ VaryText(input) \/ VaryTimeline(input)
    /\ tpc = "start"
    /\ doc = Absent
    /\ rendered = FALSE
    /\ NormIdle
    /\ HttpIdle

\* The tool call's arguments are parsed against inputSchema; the handler
\* is called only with arguments that pass.
ValidateAccept ==
    /\ tpc = "start"
    /\ generateInputSchema(input)
    /\ tpc' = "valid"
    /\ UNCHANGED <<input, doc, rendered, normVars, httpVars>>

ValidateReject ==
    /\ tpc = "start"
    /\ ~generateInputSchema(input)
    /\ tpc' = "rejected"
    /\ UNCHANGED <<input, doc, rendered, normVars, httpVars>>

\* async (args) => { const doc = buildSowDoc(args ?? {}); return {...} }
GenerateSowHandler ==
    /\ tpc = "valid"
    /\ doc' = generateSowResult(input)
    /\ rendered' = TRUE
    /\ tpc' = "returned"
    /\ UNCHANGED <<input, normVars, httpVars>>

\* buildSowDoc called on an input that no schema has checked
RenderDirect ==
    /\ tpc = "start"
    /\ doc' = buildSowDoc(input)
    /\ rendered' = TRUE
    /\ tpc' = "direct"
    /\ UNCHANGED <<input, normVars, httpVars>>

ToolNext == ValidateAccept \/ ValidateReject \/ GenerateSowHandler \/ RenderDirect

SpecTool == ToolInit /\ [][ToolNext]_vars

---------------------------------------------------------------------------
(* The HTTP request handler *)

MCP_PATH == "/mcp"
MCP_METHODS == {"POST", "GET", "DELETE"}

\* the last n labels of hostname h are the labels of suffix
HostEndsWith(h, suffix) ==
    /\ Len(h) > Len(suffix)
    /\ SubSeq(h, Len(h) - Len(suffix) + 1, Len(h)) = suffix

\* origin: Absent (no header), [kind |-> "invalid"] (new URL throws) or
\* [kind |-> "url", protocol, hostname], hostname a sequence of labels
isAllowedOrigin(origin) ==
    IF origin = Absent THEN TRUE
    ELSE IF origin.kind = "invalid" THEN FALSE
    ELSE IF origin.protocol # "https:" THEN FALSE
    ELSE \/ origin.hostname = <<"chatgpt", "com">>
         \/ HostEndsWith(origin.hostname, <<"chatgpt", "com">>)
         \/ HostEndsWith(origin.hostname, <<"openai", "com">>)
         \/ HostEndsWith(origin.hostname, <<"oaiusercontent", "com">>)

NoResult == [kind |-> "none"]

\* What the per-request server answers to a tools/call message: the
\* arguments are parsed against the tool's inputSchema before its handler.
CallTool(call) ==
    IF call.tool = "open_sow_builder"
    THEN [kind |-> "placeholder", doc |-> openBuilderResult]
    ELSE IF generateInputSchema(call.args)
         THEN [kind |-> "document", doc |-> generateSowResult(call.args)]
         ELSE [kind |-> "validation_error"]

\* A request as the handler finds it.  url is "missing" (req.url is empty),
\* "invalid" (new URL(req.url, "http://" + host) throws, as for the target
\* "//" or the Host header "[") or the pathname.
Request(method, url, origin, call) ==
    [method |-> method, url |-> url, origin |-> origin, call |-> call,
     pc |-> "received", status |-> 0, ended |-> FALSE, closed |-> FALSE,
     server |-> "none", transport |-> "none", listener |-> FALSE,
     result |-> NoResult, threw |-> "none", escaped |-> FALSE]

\* res.writeHead(status).end(...)
Respond(r, status) ==
    [r EXCEPT !.status = status, !.ended = TRUE, !.pc = "done"]

\* transport.close() only
OnResClose_TransportOnly(r) ==
    [r EXCEPT !.closed = TRUE,
              !.transport = IF r.listener THEN "closed" ELSE @]

\* the "close" event of res: res.on("close", () => { transport.close();
\* server.close(); }) when the listener is registered
OnResClose(r) ==
    [r EXCEPT !.closed = TRUE,
              !.transport = IF r.listener THEN "closed" ELSE @,
              !.server = IF r.listener THEN "closed" ELSE @]

\* catch (error) { console.error(...); if (!res.headersSent)
\* res.writeHead(500).end("Internal server error"); }
Catch(r, what) ==
    IF r.status = 0
    THEN [Respond(r, 500) EXCEPT !.threw = what]
    ELSE [r EXCEPT !.threw = what, !.pc = "done"]

\* The handler from its first line to its first await, or to its return.
Dispatch(r) ==
    IF r.url = "missing" THEN Respond(r, 400)
    ELSE IF ~isAllowedOrigin(r.origin) THEN Respond(r, 403)
    ELSE IF r.url = "invalid"
         THEN [r EXCEPT !.threw = "url", !.escaped = TRUE, !.pc = "done"]
    ELSE IF r.method = "GET" /\ r.url = "/" THEN Respond(r, 200)
    ELSE IF r.method = "OPTIONS" /\ r.url = MCP_PATH THEN Respond(r, 204)
    ELSE IF r.url = MCP_PATH /\ r.method \in MCP_METHODS
         THEN [r EXCEPT !.server = "created", !.transport = "created",
                        !.listener = TRUE, !.pc = "connecting"]
    ELSE Respond(r, 404)

---------------------------------------------------------------------------
(* Specification SpecHttp: up to MaxRequests requests, handled concurrently *)

ValidArgs ==
    SowInput([k \in TextFields |->
                 IF k = "client" THEN Absent
                 ELSE IF k = "constraints" THEN Str(<<"b">>)
                 ELSE Str(<<"a">>)], Num(6, 1))

BareArgs ==
    SowInput([k \in TextFields |->
                 IF k \in {"client", "constraints"} THEN Absent
                 ELSE Str(<<"a", LF, "b">>)], Absent)

InvalidArgs ==
    SowInput([k \in TextFields |->
                 IF k = "goal" THEN Str(<<>>) ELSE Str(<<"a">>)], Num(0, 1))

NoCall == [tool |-> "none"]

ToolCalls ==
    {[tool |-> "open_sow_builder", args |-> Absent]}
        \cup {[tool |-> "generate_sow", args |-> a] :
                 a \in {ValidArgs, BareArgs, InvalidArgs}}

Origins ==
    {Absent, [kind |-> "invalid"],
     [kind |-> "url", protocol |-> "https:", hostname |-> <<"chatgpt", "com">>],
     [kind |-> "url", protocol |-> "http:", hostname |-> <<"chatgpt", "com">>],
     [kind |-> "url", protocol |-> "https:", hostname |-> <<"cdn", "openai", "com">>],
     [kind |-> "url", protocol |-> "https:", hostname |-> <<"openai", "com">>]}

Requests ==
    {Request("POST", MCP_PATH, Absent, c) : c \in ToolCalls}
        \cup {Request("POST", MCP_PATH, o, [tool |-> "open_sow_builder", args |-> Absent]) :
                 o \in Origins}
        \cup {Request(m, u, Absent, NoCall) :
                 m \in {"GET", "DELETE", "OPTIONS"}, u \in {"/", MCP_PATH}}
        \cup {Request("POST", u, Absent, NoCall) : u \in {"missing", "invalid"}}

HttpInit ==
    /\ reqs = <<>>
    /\ logged = 0
    /\ NormIdle
    /\ ToolIdle

\* A request arrives and the handler runs to its first await or its return.
OnRequest ==
    /\ Len(reqs) < MaxRequests
    /\ \E r \in Requests : reqs' = Append(reqs, Dispatch(r))
    /\ UNCHANGED <<logged, normVars, toolVars>>

\* await server.connect(transport) settles.  It settles in the microtasks
\* of the request event, before any "close" event can be delivered.
ConnectOk(i) ==
    /\ reqs[i].pc = "connecting"
    /\ reqs' = [reqs EXCEPT ![i].server = "connected", ![i].transport = "started",
                            ![i].pc = "handling"]
    /\ UNCHANGED <<logged, normVars, toolVars>>

ConnectThrows(i) ==
    /\ reqs[i].pc = "connecting"
    /\ reqs' = [reqs EXCEPT ![i] = Catch(reqs[i], "connect")]
    /\ logged' = logged + 1
    /\ UNCHANGED <<normVars, toolVars>>

\* await transport.handleRequest(req, res) settles: the message is read,
\* the connected server answers it and the transport writes the response.
HandleOk(i) ==
    /\ reqs[i].pc = "handling"
    /\ reqs[i].server = "connected"
    /\ reqs' = [reqs EXCEPT ![i] =
                   IF reqs[i].method = "POST"
                   THEN [Respond(reqs[i], 200) EXCEPT !.result = CallTool(reqs[i].call)]
                   ELSE Respond(reqs[i], 405)]
    /\ UNCHANGED <<logged, normVars, toolVars>>

\* handleRequest finds the connection closed: nothing is dispatched or written
HandleAfterClose(i) ==
    /\ reqs[i].pc = "handling"
    /\ reqs[i].server = "closed"
    /\ reqs' = [reqs EXCEPT ![i].pc = "done"]
    /\ UNCHANGED <<logged, normVars, toolVars>>

\* handleRequest throws, before or after the response head was written
HandleThrows(i) ==
    /\ reqs[i].pc = "handling"
    /\ \E headersSent \in BOOLEAN :
           reqs' = [reqs EXCEPT ![i] =
                       Catch([reqs[i] EXCEPT !.status = IF headersSent THEN 200 ELSE @],
                             "handle")]
    /\ logged' = logged + 1
    /\ UNCHANGED <<normVars, toolVars>>

\* The response closes: it was sent, or the client gave up while the handler
\* was waiting for the transport or after the handler had left it unanswered.
Close(i) ==
    /\ ~reqs[i].closed
    /\ reqs[i].ended \/ reqs[i].pc \in {"handling", "done"}
    /\ reqs' = [reqs EXCEPT ![i] = OnResClose(reqs[i])]
    /\ UNCHANGED <<logged, normVars, toolVars>>

HttpNext ==
    \/ OnRequest
    \/ \E i \in DOMAIN reqs : ConnectOk(i)
    \/ \E i \in DOMAIN reqs : ConnectThrows(i)
    \/ \E i \in DOMAIN reqs : HandleOk(i)
    \/ \E i \in DOMAIN reqs : HandleAfterClose(i)
    \/ \E i \in DOMAIN reqs : HandleThrows(i)
    \/ \E i \in DOMAIN reqs : Close(i)

SpecHttp == HttpInit /\ [][HttpNext]_vars

---------------------------------------------------------------------------
(* Properties of generate_sow and buildSowDoc, under SpecTool *)

RequiredFields == {"project_name", "goal", "deliverables"}
OptionalFields == {"client", "constraints"}

IsWhitespaceOnly(t) == \A i \in 1..Len(t) : t[i] \in TrimSet

\* timeline_weeks holds one of the integers 1, 2, ..., 104
WeeksInRange(v) ==
    v.kind = "number" /\ \E n \in 1..104 : v.num = n * v.den

\* a required field is missing or the empty string, or timeline_weeks is a
\* number that is not an integer of 1..104
C1_Invalid(inp) ==
    \/ \E f \in RequiredFields : inp[f] = Absent \/ inp[f] = Str(<<>>)
    \/ inp.timeline_weeks.kind = "number" /\ ~WeeksInRange(inp.timeline_weeks)

\* the required fields are non-empty texts, the optional ones absent or
\* texts, timeline_weeks absent or an integer of 1..104
C1_Valid(inp) ==
    /\ \A f \in RequiredFields : inp[f].kind = "string" /\ inp[f].text # <<>>
    /\ \A f \in OptionalFields : inp[f] = Absent \/ inp[f].kind = "string"
    /\ inp.timeline_weeks = Absent \/ WeeksInRange(inp.timeline_weeks)

\* C1: generate_sow reaches buildSowDoc if and only if its input passes
\* validation: an input with a missing or empty required field, or with a
\* timeline_weeks that is not an integer in [1,104], is rejected and never
\* rendered; an input with non-empty required fields, optional fields absent
\* or text and timeline_weeks absent or an integer in [1,104] is accepted and
\* the call returns the rendered document.
C1_ValidationGuardsRenderer ==
    /\ C1_Invalid(input) => tpc \notin {"valid", "returned"}
    /\ tpc = "rejected" => ~rendered /\ doc = Absent
    /\ C1_Valid(input) => tpc # "rejected"
    /\ tpc = "returned" =>
           /\ rendered
           /\ doc.title = SowTitle(normalizeLines(input.project_name))
           /\ Len(doc.sections) \in {7, 8}

\* timeline_weeks = 3.5 with every other field valid is rejected
C1_Witness ==
    /\ tpc = "rejected"
    /\ input.timeline_weeks = Num(7, 2)
    /\ \A f \in RequiredFields : input[f] = Str(<<"a">>)

FixedHeadings ==
    <<"1. Overview", "2. Scope", "3. Out of Scope", "4. Milestones",
      "5. Acceptance Criteria", "6. Assumptions & Dependencies", "7. Risks">>

\* absent, null, empty or made of white space only
C3_ConstraintsBlank(v) ==
    \/ v.kind \in {"undefined", "null"}
    \/ v.kind = "string" /\ IsWhitespaceOnly(v.text)

\* C3: buildSowDoc returns exactly 7 sections when constraints is absent,
\* null, empty or white space only and exactly 8 otherwise; the first 7
\* carry the fixed headings in order and the 8th is Constraints / Notes.
C3_SectionCount ==
    rendered =>
        /\ Len(doc.sections) = IF C3_ConstraintsBlank(input.constraints) THEN 7 ELSE 8
        /\ \A i \in 1..7 : doc.sections[i].heading = <<FixedHeadings[i]>>
        /\ Len(doc.sections) = 8 =>
               doc.sections[8].heading = <<"8. Constraints / Notes">>

\* white-space-only constraints: 7 sections
C3_Witness ==
    /\ rendered
    /\ input.constraints = Str(<<SP, LF>>)
    /\ Len(doc.sections) = 7

MilestoneList ==
    <<"Suggested milestones:", LF,
      "- Kickoff & requirements alignment", LF,
      "- Draft / first delivery", LF,
      "- Review & revisions", LF,
      "- Final delivery & handoff">>

\* the decimal writing of the numbers of TimelineValues
WeeksShown(v) ==
    CASE v = Num(-1, 1) -> <<"-", "1">>
      [] v = Num(0, 1) -> <<"0">>
      [] v = Num(1, 1) -> <<"1">>
      [] v = Num(6, 1) -> <<"6">>
      [] v = Num(7, 2) -> <<"3", ".", "5">>
      [] v = Num(104, 1) -> <<"1", "0", "4">>
      [] v = Num(105, 1) -> <<"1", "0", "5">>

TimelineShown(v) ==
    <<"Target timeline: ~">> \o WeeksShown(v) \o <<" week(s)", LF>> \o MilestoneList

TimelineToBeAgreed ==
    <<"Target timeline: To be agreed", LF>> \o MilestoneList

RECURSIVE NonEmptyLines(_, _)
NonEmptyLines(t, cur) ==
    IF Len(t) = 0 THEN (IF cur = <<>> THEN <<>> ELSE <<cur>>)
    ELSE IF t[1] = LF
         THEN (IF cur = <<>> THEN <<>> ELSE <<cur>>) \o NonEmptyLines(Tail(t), <<>>)
         ELSE NonEmptyLines(Tail(t), cur \o <<t[1]>>)

\* one "- " bullet per line, each on a line of its own
RECURSIVE Bullets(_)
Bullets(lines) ==
    IF Len(lines) = 0 THEN <<>>
    ELSE <<LF, "- ">> \o lines[1] \o Bullets(Tail(lines))

\* C5: when deliverables normalizes to a non-empty text, the Scope body is
\* the fixed header sentence followed by one bullet "- " + line for each
\* non-empty line of the normalized deliverables, in order, empty lines
\* dropped and no line trimmed; otherwise the body is "Deliverables: --".
C5_ScopeBullets ==
    rendered =>
        LET d == normalizeLines(input.deliverables)
        IN  doc.sections[2].body =
                IF d # <<>>
                THEN <<"Deliverables (what will be produced):">>
                         \o Bullets(NonEmptyLines(d, <<>>))
                ELSE <<"Deliverables: ", EmDash>>

\* "a\n\nb" lists exactly a and b
C5_Witness ==
    /\ rendered
    /\ input.deliverables = Str(<<"a", LF, LF, "b">>)
    /\ doc.sections[2].body =
           <<"Deliverables (what will be produced):", LF, "- ", "a", LF, "- ", "b">>

\* each section as a blank line, "## " + heading, a blank line, the body and
\* a line break
RECURSIVE SectionsText(_)
SectionsText(sections) ==
    IF Len(sections) = 0 THEN <<>>
    ELSE <<LF, "## ">> \o sections[1].heading \o <<LF, LF>> \o sections[1].body
             \o <<LF>> \o SectionsText(Tail(sections))

\* C6: the markdown is "# " + title, a blank line, then each section of
\* sections in order as "## " + heading + "\n\n" + body + "\n", consecutive
\* sections one blank line apart, and a single blank line after the last.
C6_MarkdownFromSections ==
    rendered =>
        doc.markdown =
            <<"# ">> \o doc.title \o <<LF>> \o SectionsText(doc.sections) \o <<LF>>

\* a document of 8 sections whose markdown ends with the constraints text
\* and one blank line
C6_Witness ==
    /\ rendered
    /\ Len(doc.sections) = 8
    /\ input.constraints = Str(<<"a", "b">>)
    /\ SubSeq(doc.markdown, Len(doc.markdown) - 3, Len(doc.markdown))
           = <<"a", "b", LF, LF>>

\* the text holds the line <<x, y>> followed by a line break
HasLine(t, x, y) ==
    \E i \in 1..(Len(t) - 2) : t[i] = x /\ t[i + 1] = y /\ t[i + 2] = LF

EndsWith(t, x, y) ==
    Len(t) >= 2 /\ t[Len(t) - 1] = x /\ t[Len(t)] = y

C10_Blank(v) ==
    v.kind = "string" /\ v.text # <<>> /\ IsWhitespaceOnly(v.text)

\* C10: validation looks at the raw length of project_name, goal and
\* deliverables only: an input in which one of them is a non-empty text of
\* white space, the rest being valid, is accepted, and the document shows the
\* empty-field fallback: title "Statement of Work (SOW) -- Project" and line
\* "Project: --", line "Goal: --", Scope body "Deliverables: --".
C10_BlankRequiredFieldAccepted ==
    (C1_Valid(input) /\ \E f \in RequiredFields : C10_Blank(input[f])) =>
        /\ tpc # "rejected"
        /\ tpc = "returned" =>
               /\ C10_Blank(input.project_name) =>
                      /\ doc.title = <<"Statement of Work (SOW) -- ", "Project">>
                      /\ HasLine(doc.sections[1].body, "Project: ", EmDash)
               /\ C10_Blank(input.goal) =>
                      EndsWith(doc.sections[1].body, "Goal: ", EmDash)
               /\ C10_Blank(input.deliverables) =>
                      doc.sections[2].body = <<"Deliverables: ", EmDash>>

\* project_name " \t" is accepted and the title falls back to Project
C10_Witness ==
    /\ tpc = "returned"
    /\ input.project_name = Str(<<SP, TAB>>)
    /\ doc.title = <<"Statement of Work (SOW) -- ", "Project">>

---------------------------------------------------------------------------
(* Properties of the request handler, under SpecHttp *)

\* the document of a generate_sow call that is the only call ever made
DocumentAlone(args) ==
    LET title == SowTitle(normalizeLines(args.project_name))
        sections ==
            <<OverviewSection(normalizeLines(args.client),
                              normalizeLines(args.project_name),
                              normalizeLines(args.goal)),
              ScopeSection(normalizeLines(args.deliverables)),
              OutOfScopeSection,
              MilestonesSection(OrNull(args.timeline_weeks)),
              AcceptanceSection, AssumptionsSection, RisksSection>>
                \o ConstraintsSections(normalizeLines(args.constraints))
    IN  [title |-> title, sections |-> sections,
         markdown |-> <<"# ">> \o title \o <<LF>> \o SectionsText(sections) \o <<LF>>]

\* C7: calls are stateless and independent: in every interleaving of
\* open_sow_builder and generate_sow requests, successful or failing, the
\* structured result of each call depends on that call's input alone and is
\* the one it has as the only call ever made; a request that fails
\* validation or throws changes no other request's result.
C7_CallsIndependent ==
    /\ \A i \in DOMAIN reqs :
           LET r == reqs[i]
           IN  /\ r.result.kind = "placeholder" =>
                      /\ r.call.tool = "open_sow_builder"
                      /\ r.result.doc =
                             [ready |-> TRUE, title |-> Null, sections |-> <<>>,
                              markdown |-> <<>>]
               /\ r.result.kind = "document" =>
                      /\ r.call.tool = "generate_sow"
                      /\ r.result.doc = DocumentAlone(r.call.args)
               /\ r.result.kind = "validation_error" => r.call = 
                      [tool |-> "generate_sow", args |-> InvalidArgs]
    /\ \A i, j \in DOMAIN reqs :
           (reqs[i].call = reqs[j].call /\ reqs[i].result # NoResult
                /\ reqs[j].result # NoResult)
               => reqs[i].result = reqs[j].result

\* a document returned after another request failed validation
C7_Witness ==
    /\ Len(reqs) = 2
    /\ reqs[1].result.kind = "validation_error"
    /\ reqs[2].result.kind = "document"
    /\ reqs[2].call.args = ValidArgs

\* C8: every exception raised while the handler processes a request (while
\* parsing the URL, connecting the server or handling the request in the
\* transport) is caught in the handler, logged and answered with 500; no
\* exception escapes the handler and no request is left without a response.
C8_ExceptionsCaught ==
    /\ \A i \in DOMAIN reqs :
           LET r == reqs[i]
           IN  /\ ~r.escaped
               /\ r.threw # "none" => r.status = 500 /\ r.ended
               /\ r.pc = "done" => r.status # 0
    /\ logged = Cardinality({i \in DOMAIN reqs : reqs[i].threw # "none"})

\* C9: the server and the transport created for a request to the MCP
\* endpoint are closed once its response has closed, whether the request
\* succeeded, failed validation or threw; when every response has closed,
\* no per-request server or transport is left open.
C9_ClosedWithResponse ==
    \A i \in DOMAIN reqs :
        LET r == reqs[i]
        IN  /\ (r.url = MCP_PATH /\ r.method \in MCP_METHODS /\ isAllowedOrigin(r.origin))
                   => r.server # "none" /\ r.transport # "none"
            /\ r.closed => r.server \in {"none", "closed"}
                               /\ r.transport \in {"none", "closed"}

\* two MCP requests, one answered and one that threw, both closed and both
\* with their server and transport closed
C9_Witness ==
    /\ Len(reqs) = 2
    /\ reqs[1].closed /\ reqs[1].result.kind = "document" /\ reqs[1].server = "closed"
    /\ reqs[2].closed /\ reqs[2].threw = "handle" /\ reqs[2].transport = "closed"

=============================================================================
